---- MODULE Spec2Model ----
(***************************************************************************)
(* A model of the scratchpad editor: the text buffer and cursor driven by  *)
(* key events (src/src/app.rs), the window event handlers of the           *)
(* orchestrator, the renderer's blink / resize / render state              *)
(* (src/src/renderer.rs) and the session's exit status (src/src/main.rs).  *)
(*                                                                         *)
(* Text is a sequence of Unicode scalar values (code points).  The rope    *)
(* indexes by character; a String indexes and measures by UTF-8 byte, so   *)
(* the two lengths are kept apart: Len(s) is the character count and       *)
(* StrLen(s) the byte count.                                               *)
(***************************************************************************)
EXTENDS Integers, Sequences, FiniteSets, TLC

VARIABLES
  pc,               \* position of run(): "build", "running", "done", "panicked"
  result,           \* what run() returned: "none", "Ok", "Err"
  cursor_position,  \* App.cursor_position
  editor_content,   \* App.editor_content, the rope's characters
  error,            \* App.error: "None" or the error's variant
  renderer,         \* App.renderer: NoRenderer or Some(the Renderer's fields)
  window,           \* App.window: None or the window
  exiting,          \* event_loop.exit() has been called
  redraw_requested, \* window.request_redraw() is pending
  exit_cause,       \* history: what called event_loop.exit() first
  last,             \* history: the event handled last
  prev              \* history: the fields the last event started from

vars == <<pc, result, cursor_position, editor_content, error, renderer, window,
          exiting, redraw_requested, exit_cause, last, prev>>

None == "None"

\* Option<Renderer>: the empty sequence, or the renderer alone in one.
NoRenderer == <<>>
Some(r) == <<r>>

-----------------------------------------------------------------------------
(* Bounds of the model.                                                    *)

\* The longest content explored, in characters.
MaxLen == 3

\* The blink timer is followed for this many ticks of the clock.
MaxTicks == 2

-----------------------------------------------------------------------------
(* Characters and strings.                                                 *)

NewlineChar == 10
SpaceChar == 32

\* 'a' (one byte in UTF-8) and U+00E9 (two bytes).
PayloadChars == {97, 233}

\* The payloads of Key::Character: one ASCII character, one non-ASCII
\* character, several characters, several with a non-ASCII one among them.
Payloads == {<<97>>, <<233>>, <<97, 97>>, <<97, 233>>}

\* The UTF-8 encoded length of one scalar value.
Utf8Len(ch) ==
  IF ch < 128 THEN 1
  ELSE IF ch < 2048 THEN 2
  ELSE IF ch < 65536 THEN 3
  ELSE 4

\* str::len(): the length of a string in bytes.
RECURSIVE StrLen(_)
StrLen(s) == IF s = <<>> THEN 0 ELSE Utf8Len(Head(s)) + StrLen(Tail(s))

\* Rope::len_chars(): the length of the rope in characters.
len_chars(rope) == Len(rope)

\* Rope::insert(char_idx, text) panics when char_idx is past the end.
RopeInsertPanics(rope, char_idx) == char_idx > len_chars(rope)

RopeInsert(rope, char_idx, text) ==
  SubSeq(rope, 1, char_idx) \o text \o SubSeq(rope, char_idx + 1, Len(rope))

\* Rope::remove(start..end) panics when the range is not within the rope.
RopeRemovePanics(rope, start, end) == start > end \/ end > len_chars(rope)

RopeRemove(rope, start, end) ==
  SubSeq(rope, 1, start) \o SubSeq(rope, end + 1, Len(rope))

-----------------------------------------------------------------------------
(* Keys.                                                                   *)

Pressed == "Pressed"
Released == "Released"
ElementState == {Pressed, Released}

Named(name) == [tag |-> "Named", name |-> name, text |-> <<>>]
Character(text) == [tag |-> "Character", name |-> "", text |-> text]

\* Tab stands for the named keys the handler has no arm for.
NamedKey ==
  {"Backspace", "Delete", "ArrowLeft", "ArrowRight", "Home", "End", "Enter",
   "Space", "Escape", "Tab"}

Key == {Named(n) : n \in NamedKey} \cup {Character(p) : p \in Payloads}

-----------------------------------------------------------------------------
(* App::handle_keyboard_input, one operator per arm.  Each yields the      *)
(* buffer after the arm, or panic = TRUE with the buffer as the panic      *)
(* left it.                                                                *)

Done(content, cursor) == [content |-> content, cursor |-> cursor, panic |-> FALSE]
Panic(content, cursor) == [content |-> content, cursor |-> cursor, panic |-> TRUE]

Backspace(content, cursor) ==
  IF cursor > 0
  THEN IF RopeRemovePanics(content, cursor - 1, cursor)
       THEN Panic(content, cursor)
       ELSE Done(RopeRemove(content, cursor - 1, cursor), cursor - 1)
  ELSE Done(content, cursor)

Delete_OffByOne(content, cursor) ==
  IF cursor <= len_chars(content)
  THEN IF RopeRemovePanics(content, cursor, cursor + 1)
       THEN Panic(content, cursor)
       ELSE Done(RopeRemove(content, cursor, cursor + 1), cursor)
  ELSE Done(content, cursor)

Delete(content, cursor) ==
  IF cursor < len_chars(content)
  THEN IF RopeRemovePanics(content, cursor, cursor + 1)
       THEN Panic(content, cursor)
       ELSE Done(RopeRemove(content, cursor, cursor + 1), cursor)
  ELSE Done(content, cursor)

ArrowLeft(content, cursor) ==
  IF cursor > 0 THEN Done(content, cursor - 1) ELSE Done(content, cursor)

ArrowRight(content, cursor) ==
  IF cursor < len_chars(content)
  THEN Done(content, cursor + 1)
  ELSE Done(content, cursor)

Home(content, cursor) == Done(content, 0)

End_ByteLen(content, cursor) == Done(content, StrLen(content))

End(content, cursor) == Done(content, len_chars(content))

\* The Enter and Space arms: insert the one character, advance by 1.
InsertOne(content, cursor, ch) ==
  IF RopeInsertPanics(content, cursor)
  THEN Panic(content, cursor)
  ELSE Done(RopeInsert(content, cursor, <<ch>>), cursor + 1)

\* The Key::Character arm: insert the payload, advance by c.len().
InsertCharacter(content, cursor, c) ==
  IF RopeInsertPanics(content, cursor)
  THEN Panic(content, cursor)
  ELSE Done(RopeInsert(content, cursor, c), cursor + StrLen(c))

\* The match on the key, lines 45-90.
KeyArm(content, cursor, key) ==
  IF key = Named("Backspace") THEN Backspace(content, cursor)
  ELSE IF key = Named("Delete") THEN Delete(content, cursor)
  ELSE IF key = Named("ArrowLeft") THEN ArrowLeft(content, cursor)
  ELSE IF key = Named("ArrowRight") THEN ArrowRight(content, cursor)
  ELSE IF key = Named("Home") THEN Home(content, cursor)
  ELSE IF key = Named("End") THEN End(content, cursor)
  ELSE IF key = Named("Enter") THEN InsertOne(content, cursor, NewlineChar)
  ELSE IF key = Named("Space") THEN InsertOne(content, cursor, SpaceChar)
  ELSE IF key.tag = "Character" THEN InsertCharacter(content, cursor, key.text)
  ELSE Done(content, cursor)

handle_keyboard_input_AnyState(content, cursor, key, state) ==
  KeyArm(content, cursor, key)

handle_keyboard_input(content, cursor, key, state) ==
  IF state = Pressed THEN KeyArm(content, cursor, key) ELSE Done(content, cursor)

\* The characters a key press adds to the content.
Inserted(key) ==
  IF key = Named("Enter") \/ key = Named("Space") THEN 1
  ELSE IF key.tag = "Character" THEN Len(key.text)
  ELSE 0

-----------------------------------------------------------------------------
(* The renderer.                                                           *)

\* Duration::from_millis(500), the blink threshold.
BlinkMs == 500

\* The clock advances in ticks of this many ms: a tick reaches the
\* threshold and the next one passes it.
TickMs == BlinkMs

\* with_inner_size: the size the window is created with.
InitialSize == [width |-> 1600, height |-> 1200]

\* The sizes resize events carry: no width, no height, and two real ones.
Sizes ==
  {[width |-> 0, height |-> 600], [width |-> 800, height |-> 0],
   [width |-> 800, height |-> 600], [width |-> 1600, height |-> 1200]}

\* The ways Renderer::new fails: surface, adapter or font, device.
RendererNewErrors == {"CreateSurface", "Internal", "Device"}

\* The step of a render call that fails, if one does.
RenderFailures == {"None", "CurrentTexture", "Text", "Cursor"}

\* Renderer::new: the fields of a fresh renderer.  surface holds the
\* configuration last passed to surface.configure.  cursor_blink_timer holds
\* the time elapsed since the Instant it stores, which Instant::now() makes 0.
RendererNew(size) ==
  [size |-> size,
   config |-> [width |-> size.width, height |-> size.height],
   surface |-> [width |-> size.width, height |-> size.height],
   cursor_visible |-> TRUE,
   cursor_blink_timer |-> 0]

\* surface.configure(&device, &config).
SurfaceConfigure(r) == [r EXCEPT !.surface = r.config]

RendererResize_KeepsConfig(r, new_size) ==
  IF new_size.width > 0 /\ new_size.height > 0
  THEN [renderer |-> SurfaceConfigure([r EXCEPT !.size = new_size]),
        configured |-> TRUE]
  ELSE [renderer |-> r, configured |-> FALSE]

\* Renderer::resize: the renderer after the call and whether the call
\* configured the surface.
RendererResize(r, new_size) ==
  IF new_size.width > 0 /\ new_size.height > 0
  THEN [renderer |->
          SurfaceConfigure(
            [r EXCEPT !.size = new_size,
                      !.config = [width |-> new_size.width,
                                  height |-> new_size.height]]),
        configured |-> TRUE]
  ELSE [renderer |-> r, configured |-> FALSE]

\* App::resize.
AppResize(r, new_size) ==
  IF new_size.width > 0 /\ new_size.height > 0 /\ r # NoRenderer
  THEN LET done == RendererResize(r[1], new_size)
       IN  [done EXCEPT !.renderer = Some(done.renderer)]
  ELSE [renderer |-> r, configured |-> FALSE]

Blink_AtThreshold(r) ==
  IF r.cursor_blink_timer >= BlinkMs
  THEN [r EXCEPT !.cursor_visible = ~r.cursor_visible, !.cursor_blink_timer = 0]
  ELSE r

\* The blink step of Renderer::render.
Blink(r) ==
  IF r.cursor_blink_timer > BlinkMs
  THEN [r EXCEPT !.cursor_visible = ~r.cursor_visible, !.cursor_blink_timer = 0]
  ELSE r

\* str::is_char_boundary: byte index i of text starts a character or ends
\* the text.
IsCharBoundary(text, i) ==
  \E k \in 0..Len(text) : StrLen(SubSeq(text, 1, k)) = i

\* &text_content[0..cursor_position] panics unless the index is on a
\* character boundary of the text.
SlicePanics(text, cursor) == ~IsCharBoundary(text, cursor)

\* x_margin and char_width of Renderer::render, in tenths of a pixel.
XMargin == 300
CharWidth == 152

\* cursor_x of Renderer::render: text_before_cursor.len() is the slice's
\* length in bytes.
CursorX(text_before_cursor_len) == XMargin + text_before_cursor_len * CharWidth

RenderEnd_ResetsSize(b, text, cursor, outcome, failed, shown) ==
  [renderer |-> [b EXCEPT !.size = InitialSize], outcome |-> outcome,
   failed |-> failed, calls |-> 1, text |-> text, cursor |-> cursor,
   submitted |-> shown, presented |-> shown, caret |-> b.cursor_visible,
   caret_len |-> IF SlicePanics(text, cursor) THEN 0 ELSE cursor,
   cursor_x |-> IF SlicePanics(text, cursor) THEN 0 ELSE CursorX(cursor)]

\* How a render call ends: the renderer it leaves, its outcome ("Ok", the
\* error it returned, or "panic"), the step that failed, whether the frame
\* was submitted to the queue and presented, whether the caret is drawn,
\* the text_before_cursor.len() placing it and the place; calls counts the
\* call, text and cursor are the arguments it read.
RenderEnd(b, text, cursor, outcome, failed, shown) ==
  [renderer |-> b, outcome |-> outcome, failed |-> failed,
   calls |-> 1, text |-> text, cursor |-> cursor,
   submitted |-> shown, presented |-> shown, caret |-> b.cursor_visible,
   caret_len |-> IF SlicePanics(text, cursor) THEN 0 ELSE cursor,
   cursor_x |-> IF SlicePanics(text, cursor) THEN 0 ELSE CursorX(cursor)]

RendererRender_SubmitsOnCaretFailure(r, text, cursor, fail) ==
  LET b == Blink(r)
      end(outcome, failed, shown) ==
        RenderEnd(b, text, cursor, outcome, failed, shown)
  IN  IF fail = "CurrentTexture"
      THEN end("CurrentTexture", "CurrentTexture", FALSE)
      ELSE IF SlicePanics(text, cursor) THEN end("panic", "Slice", FALSE)
      ELSE IF fail = "Text" THEN end("Internal", "Text", FALSE)
      ELSE IF b.cursor_visible /\ fail = "Cursor"
      THEN end("Internal", "Cursor", TRUE)
      ELSE end("Ok", "None", TRUE)

\* Renderer::render: the blink step, then each step that can fail returns
\* early (the ? operator) or panics (the slice); only a call that passes
\* them all submits the frame and presents the texture.
RendererRender(r, text, cursor, fail) ==
  LET b == Blink(r)
      end(outcome, failed, shown) ==
        RenderEnd(b, text, cursor, outcome, failed, shown)
  IN  IF fail = "CurrentTexture"
      THEN end("CurrentTexture", "CurrentTexture", FALSE)
      ELSE IF SlicePanics(text, cursor) THEN end("panic", "Slice", FALSE)
      ELSE IF fail = "Text" THEN end("Internal", "Text", FALSE)
      ELSE IF b.cursor_visible /\ fail = "Cursor"
      THEN end("Internal", "Cursor", FALSE)
      ELSE end("Ok", "None", TRUE)

\* App::render without a renderer: Ok, nothing rendered.
NotRendered(r) ==
  [renderer |-> r, outcome |-> "Ok", failed |-> "None", calls |-> 0,
   text |-> <<>>, cursor |-> 0, submitted |-> FALSE, presented |-> FALSE,
   caret |-> FALSE, caret_len |-> 0, cursor_x |-> 0]

AppRender_Stale(r, content, cursor, fail) ==
  IF r # NoRenderer
  THEN LET done == RendererRender(r[1], prev.content, prev.cursor, fail)
       IN  [done EXCEPT !.renderer = Some(done.renderer)]
  ELSE NotRendered(r)

\* App::render: when there is a renderer, one call of Renderer::render with
\* the content as a String and the cursor.
AppRender(r, content, cursor, fail) ==
  IF r # NoRenderer
  THEN LET done == RendererRender(r[1], content, cursor, fail)
       IN  [done EXCEPT !.renderer = Some(done.renderer)]
  ELSE NotRendered(r)

-----------------------------------------------------------------------------
(* The session: run() and the handlers the event loop calls.  The loop     *)
(* delivers window events for a window that exists, so the handlers of     *)
(* window_event run once resumed has created the window; it goes on        *)
(* delivering events after exit() was called, until the loop's iteration   *)
(* ends and run_app returns.                                               *)

\* The fields an event starts from.
Snapshot ==
  [content |-> editor_content, cursor |-> cursor_position, error |-> error,
   exiting |-> exiting]

NoEvent == [kind |-> "None"]

\* App::new, before run() has built the event loop.
Init ==
  /\ pc = "build"
  /\ result = "none"
  /\ cursor_position = 0
  /\ editor_content = <<>>
  /\ error = None
  /\ renderer = NoRenderer
  /\ window = None
  /\ exiting = FALSE
  /\ redraw_requested = FALSE
  /\ exit_cause = None
  /\ last = NoEvent
  /\ prev = Snapshot

\* event_loop.exit(), called by `cause`.
Exit(cause) ==
  /\ exiting' = TRUE
  /\ exit_cause' = IF exiting THEN exit_cause ELSE cause

NoExit == UNCHANGED <<exiting, exit_cause>>

RecordError_NoExit(err) == error' = err /\ NoExit

\* The Err arms of resumed and of RedrawRequested: self.error = Some(err),
\* then event_loop.exit().
RecordError(err) == error' = err /\ Exit("Error")

\* EventLoop::with_user_event().build(), which may fail.
EventLoopBuild(ok) ==
  /\ pc = "build"
  /\ pc' = IF ok THEN "running" ELSE "done"
  /\ result' = IF ok THEN result ELSE "Err"
  /\ last' = [kind |-> "EventLoopBuild", ok |-> ok]
  /\ prev' = Snapshot
  /\ UNCHANGED <<cursor_position, editor_content, error, renderer, window,
                 exiting, redraw_requested, exit_cause>>

\* What window_event does with a key event: whether it exits the loop, the
\* buffer handle_keyboard_input leaves, whether it requests a redraw.
KeyboardInputEffect(key, state) ==
  IF state = Pressed
  THEN IF key = Named("Escape")
       THEN [exit |-> TRUE, buf |-> Done(editor_content, cursor_position),
             redraw |-> FALSE]
       ELSE [exit |-> FALSE,
             buf |-> handle_keyboard_input(editor_content, cursor_position,
                                           key, state),
             redraw |-> window # None]
  ELSE [exit |-> FALSE,
        buf |-> handle_keyboard_input(editor_content, cursor_position,
                                      key, state),
        redraw |-> FALSE]

\* WindowEvent::KeyboardInput.
KeyboardInput(key, state) ==
  /\ pc = "running"
  /\ window # None
  /\ state = Pressed => Len(editor_content) + Inserted(key) <= MaxLen
  /\ LET e == KeyboardInputEffect(key, state) IN
       /\ editor_content' = e.buf.content
       /\ cursor_position' = e.buf.cursor
       /\ pc' = IF e.buf.panic THEN "panicked" ELSE pc
       /\ IF e.exit THEN Exit("Escape") ELSE NoExit
       /\ redraw_requested' = (redraw_requested \/ (e.redraw /\ ~e.buf.panic))
  /\ last' = [kind |-> "KeyboardInput", key |-> key, state |-> state]
  /\ prev' = Snapshot
  /\ UNCHANGED <<result, error, renderer, window>>

Resumed_KeepsWindow(outcome) ==
  /\ pc = "running"
  /\ IF window = None
     THEN IF outcome = "Ok"
          THEN /\ renderer' = Some(RendererNew(InitialSize))
               /\ window' = "Window"
               /\ redraw_requested' = TRUE
               /\ UNCHANGED error
               /\ NoExit
          ELSE /\ RecordError(outcome)
               /\ window' = IF outcome \in RendererNewErrors
                            THEN "Window" ELSE window
               /\ UNCHANGED <<renderer, redraw_requested>>
     ELSE /\ UNCHANGED <<error, renderer, window, redraw_requested>>
          /\ NoExit
  /\ last' = [kind |-> "Resumed", outcome |-> IF window = None THEN outcome ELSE "Skipped"]
  /\ prev' = Snapshot
  /\ UNCHANGED <<pc, result, cursor_position, editor_content>>

\* ApplicationHandler::resumed.  `outcome` is how window creation and
\* Renderer::new end: "Ok", "CreateWindow", or an error of Renderer::new.
Resumed(outcome) ==
  /\ pc = "running"
  /\ IF window = None
     THEN IF outcome = "Ok"
          THEN /\ renderer' = Some(RendererNew(InitialSize))
               /\ window' = "Window"
               /\ redraw_requested' = TRUE
               /\ UNCHANGED error
               /\ NoExit
          ELSE /\ RecordError(outcome)
               /\ UNCHANGED <<renderer, window, redraw_requested>>
     ELSE /\ UNCHANGED <<error, renderer, window, redraw_requested>>
          /\ NoExit
  /\ last' = [kind |-> "Resumed", outcome |-> IF window = None THEN outcome ELSE "Skipped"]
  /\ prev' = Snapshot
  /\ UNCHANGED <<pc, result, cursor_position, editor_content>>

\* WindowEvent::CloseRequested.
CloseRequested ==
  /\ pc = "running"
  /\ window # None
  /\ Exit("CloseRequested")
  /\ last' = [kind |-> "CloseRequested"]
  /\ prev' = Snapshot
  /\ UNCHANGED <<pc, result, cursor_position, editor_content, error, renderer,
                 window, redraw_requested>>

\* WindowEvent::Resized.
Resized(new_size) ==
  /\ pc = "running"
  /\ window # None
  /\ LET done == AppResize(renderer, new_size) IN
       /\ renderer' = done.renderer
       /\ last' = [kind |-> "Resized", size |-> new_size, before |-> renderer,
                   configured |-> done.configured]
  /\ prev' = Snapshot
  /\ UNCHANGED <<pc, result, cursor_position, editor_content, error, window,
                 exiting, redraw_requested, exit_cause>>

RequestRedraw_Never(w) == FALSE

\* if let Some(window) = &self.window { window.request_redraw(); }: whether
\* a redraw is requested.
RequestRedraw(w) == w # None

\* WindowEvent::RedrawRequested.  Delivering it takes the pending request;
\* the handler renders, records a failure, and requests the next redraw.
\* frame tells one redraw from the next: it alternates over redraws that
\* follow each other.
RedrawRequested(fail) ==
  /\ pc = "running"
  /\ window # None
  /\ LET r == AppRender(renderer, editor_content, cursor_position, fail) IN
       /\ renderer' = r.renderer
       /\ pc' = IF r.outcome = "panic" THEN "panicked" ELSE pc
       /\ IF r.outcome \in {"Ok", "panic"}
          THEN UNCHANGED error /\ NoExit
          ELSE RecordError(r.outcome)
       /\ redraw_requested' = (r.outcome # "panic" /\ RequestRedraw(window))
       /\ last' = [kind |-> "RedrawRequested",
                   frame |-> IF last.kind = "RedrawRequested"
                             THEN 1 - last.frame ELSE 0,
                   outcome |-> r.outcome,
                   failed |-> r.failed, before |-> renderer,
                   after |-> r.renderer,
                   rendered |-> r.calls > 0, calls |-> r.calls,
                   text |-> r.text, cursor |-> r.cursor,
                   submitted |-> r.submitted,
                   presented |-> r.presented, caret |-> r.caret,
                   caret_len |-> r.caret_len, cursor_x |-> r.cursor_x]
  /\ prev' = Snapshot
  /\ UNCHANGED <<result, cursor_position, editor_content, window>>

\* ApplicationHandler::about_to_wait.
AboutToWait ==
  /\ pc = "running"
  /\ redraw_requested' = (redraw_requested \/ RequestRedraw(window))
  /\ last' = [kind |-> "AboutToWait"]
  /\ prev' = Snapshot
  /\ UNCHANGED <<pc, result, cursor_position, editor_content, error, renderer,
                 window, exiting, exit_cause>>

\* Time passes: Instant::elapsed() of the blink timer grows.
Tick ==
  /\ pc = "running"
  /\ renderer # NoRenderer
  /\ renderer[1].cursor_blink_timer < MaxTicks * TickMs
  /\ renderer' = [renderer EXCEPT ![1].cursor_blink_timer = @ + TickMs]
  /\ UNCHANGED <<pc, result, cursor_position, editor_content, error, window,
                 exiting, redraw_requested, exit_cause, last, prev>>

RunResult_Inverted(err) == IF err = None THEN "Err" ELSE "Ok"

\* run(), after run_app returned Ok: Err(error) if the app recorded one.
RunResult(err) == IF err # None THEN "Err" ELSE "Ok"

\* The loop stops once exit() was called; run_app returns Ok.
RunAppReturns ==
  /\ pc = "running"
  /\ exiting
  /\ pc' = "done"
  /\ result' = RunResult(error)
  /\ last' = [kind |-> "RunApp", ok |-> TRUE]
  /\ prev' = Snapshot
  /\ UNCHANGED <<cursor_position, editor_content, error, renderer, window,
                 exiting, redraw_requested, exit_cause>>

\* The event loop fails by itself; run_app returns Err and `?` returns it.
RunAppFails ==
  /\ pc = "running"
  /\ ~exiting
  /\ pc' = "done"
  /\ result' = "Err"
  /\ last' = [kind |-> "RunApp", ok |-> FALSE]
  /\ prev' = Snapshot
  /\ UNCHANGED <<cursor_position, editor_content, error, renderer, window,
                 exiting, redraw_requested, exit_cause>>

\* main(): the exit status of the process.  A panic exits with 101.
ExitStatus ==
  IF pc = "panicked" THEN 101 ELSE IF result = "Err" THEN 1 ELSE 0

-----------------------------------------------------------------------------
(* Specifications.                                                         *)

\* The keys of a whole session: Escape, a non-ASCII character to type, and
\* keys that move the cursor and remove a character.
SessionKeys ==
  {Named(n) : n \in {"Backspace", "ArrowLeft", "Escape"}}
    \cup {Character(<<233>>)}

\* A whole session: every event the loop delivers.
Next ==
  \/ \E ok \in BOOLEAN : EventLoopBuild(ok)
  \/ \E outcome \in {"Ok", "CreateWindow"} \cup RendererNewErrors : Resumed(outcome)
  \/ CloseRequested
  \/ \E new_size \in Sizes : Resized(new_size)
  \/ \E key \in SessionKeys, state \in ElementState : KeyboardInput(key, state)
  \/ \E fail \in RenderFailures : RedrawRequested(fail)
  \/ AboutToWait
  \/ Tick
  \/ RunAppReturns
  \/ RunAppFails

Spec == Init /\ [][Next]_vars

\* The keyboard alone: a session in which, once the window is there, only
\* key events arrive: every key, pressed and released.
NextKeys ==
  \/ \E ok \in BOOLEAN : EventLoopBuild(ok)
  \/ \E outcome \in {"Ok", "CreateWindow"} \cup RendererNewErrors : Resumed(outcome)
  \/ \E key \in Key, state \in ElementState : KeyboardInput(key, state)

SpecKeys == Init /\ [][NextKeys]_vars

\* The redraw loop alone: a session without keyboard input in which the
\* event loop runs until exit() is called, and delivers a redraw that was
\* requested.
NextFrames ==
  \/ \E ok \in BOOLEAN : EventLoopBuild(ok)
  \/ \E outcome \in {"Ok", "CreateWindow"} \cup RendererNewErrors : Resumed(outcome)
  \/ CloseRequested
  \/ \E new_size \in Sizes : Resized(new_size)
  \/ \E fail \in RenderFailures : RedrawRequested(fail)
  \/ AboutToWait
  \/ Tick
  \/ RunAppReturns

RequestedRedraw == redraw_requested /\ \E fail \in RenderFailures : RedrawRequested(fail)

SpecFrames == Init /\ [][NextFrames]_vars /\ WF_vars(RequestedRedraw)

-----------------------------------------------------------------------------
(* Properties of the buffer under key events.                              *)

Min(a, b) == IF a < b THEN a ELSE b
Max(a, b) == IF a > b THEN a ELSE b

\* The last event was a press of `key`.
KeyPressed(key) ==
  last.kind = "KeyboardInput" /\ last.state = Pressed /\ last.key = key

\* The text a key press is to insert: the payload, "\n" or " ".
KeyText(key) ==
  IF key = Named("Enter") THEN <<NewlineChar>>
  ELSE IF key = Named("Space") THEN <<SpaceChar>>
  ELSE key.text

InsertingKeys == {Named("Enter"), Named("Space")} \cup {Character(p) : p \in Payloads}

\* s with text p put before its character of index i (counted from 0).
InsertAt(s, i, p) == SubSeq(s, 1, i) \o p \o SubSeq(s, i + 1, Len(s))

\* s without its character of index i (counted from 0).
RemoveAt(s, i) == SubSeq(s, 1, i) \o SubSeq(s, i + 2, Len(s))

\* C1: after any sequence of key events from the empty buffer the cursor is
\* within the content, both counted in characters: 0 <= cursor <= len.
C1_CursorWithinContent ==
  0 <= cursor_position /\ cursor_position <= Len(editor_content)

\* C2: key handling never fails: no key event ends in a panic of the rope's
\* insert or remove.
C2_KeyHandlingNeverFails ==
  last.kind = "KeyboardInput" => pc # "panicked"

\* C3: a press of a printable key with payload p, of Enter or of Space puts
\* p at the cursor and advances the cursor by the number of characters of p.
C3_InsertAtCursor ==
  \A key \in InsertingKeys :
    KeyPressed(key) =>
      /\ pc # "panicked"
      /\ prev.cursor <= Len(prev.content)
      /\ editor_content = InsertAt(prev.content, prev.cursor, KeyText(key))
      /\ cursor_position = prev.cursor + Len(KeyText(key))

\* C4: after the press of a printable key with a one-character payload, a
\* Backspace press gives back the content and the cursor the insertion
\* started from.
C4_InsertBackspaceRoundTrip ==
  \A p \in Payloads :
    (Len(p) = 1 /\ KeyPressed(Character(p)) /\ pc = "running") =>
      LET back == handle_keyboard_input(editor_content, cursor_position,
                                        Named("Backspace"), Pressed)
      IN  /\ ~back.panic
          /\ back.content = prev.content
          /\ back.cursor = prev.cursor

\* C5: a Backspace press with cursor > 0 removes exactly the character of
\* index cursor - 1 and moves the cursor back by 1; with cursor = 0 it
\* changes nothing.
C5_Backspace ==
  KeyPressed(Named("Backspace")) =>
    IF prev.cursor > 0
    THEN /\ pc # "panicked"
         /\ prev.cursor <= Len(prev.content)
         /\ editor_content = RemoveAt(prev.content, prev.cursor - 1)
         /\ cursor_position = prev.cursor - 1
    ELSE /\ pc # "panicked"
         /\ editor_content = prev.content
         /\ cursor_position = prev.cursor

\* C6: a Delete press with cursor < len removes exactly the character of
\* index cursor and keeps the cursor; with cursor = len it changes nothing.
C6_DeleteForward ==
  KeyPressed(Named("Delete")) =>
    /\ prev.cursor < Len(prev.content) =>
         /\ pc # "panicked"
         /\ editor_content = RemoveAt(prev.content, prev.cursor)
         /\ cursor_position = prev.cursor
    /\ prev.cursor = Len(prev.content) =>
         /\ pc # "panicked"
         /\ editor_content = prev.content
         /\ cursor_position = prev.cursor

\* C6, its case: a Delete press removed a character from the middle of the
\* content, before a non-ASCII character.
C6_Witness ==
  /\ KeyPressed(Named("Delete"))
  /\ prev.cursor < Len(prev.content)
  /\ prev.cursor > 0
  /\ Len(editor_content) = Len(prev.content) - 1
  /\ \E i \in 1..Len(editor_content) : editor_content[i] = 233

\* C7: ArrowLeft sets the cursor to max(cursor - 1, 0) and ArrowRight to
\* min(cursor + 1, len); neither changes the content.
C7_ArrowKeys ==
  /\ KeyPressed(Named("ArrowLeft")) =>
       /\ cursor_position = Max(prev.cursor - 1, 0)
       /\ editor_content = prev.content
  /\ KeyPressed(Named("ArrowRight")) =>
       /\ cursor_position = Min(prev.cursor + 1, Len(prev.content))
       /\ editor_content = prev.content

\* C8: Home sets the cursor to 0 and End sets it to the number of
\* characters of the content; neither changes the content.
C8_HomeEnd ==
  /\ KeyPressed(Named("Home")) =>
       cursor_position = 0 /\ editor_content = prev.content
  /\ KeyPressed(Named("End")) =>
       cursor_position = Len(prev.content) /\ editor_content = prev.content

\* C8, its case: End moved the cursor to the end of a content that holds a
\* non-ASCII character, so that its length in bytes is not its length.
C8_Witness ==
  /\ KeyPressed(Named("End"))
  /\ prev.cursor < Len(prev.content)
  /\ cursor_position = Len(editor_content)
  /\ StrLen(editor_content) > Len(editor_content)

\* One insertion or one removal leads from old to new.
OneMutation(old, new) ==
  \/ \E i \in 0..(Len(old) - 1) : new = RemoveAt(old, i)
  \/ \E i \in 0..Len(old), key \in InsertingKeys :
       new = InsertAt(old, i, KeyText(key))

\* C9: a key release, whatever the key, leaves content and cursor as they
\* were and does not ask the loop to exit; the content changes on a press
\* only, by one insertion or removal.
C9_ReleaseIgnored ==
  last.kind = "KeyboardInput" =>
    /\ last.state = Released =>
         /\ pc = "running"
         /\ editor_content = prev.content
         /\ cursor_position = prev.cursor
         /\ exiting = prev.exiting
         /\ error = prev.error
    /\ editor_content # prev.content =>
         /\ last.state = Pressed
         /\ OneMutation(prev.content, editor_content)

\* C9, its case: Backspace was released with a character before the cursor.
C9_Witness ==
  /\ last.kind = "KeyboardInput"
  /\ last.state = Released
  /\ last.key = Named("Backspace")
  /\ cursor_position > 0
  /\ cursor_position <= Len(editor_content)

-----------------------------------------------------------------------------
(* Properties of the session.                                              *)

\* The last event asked to end the session: Escape pressed, or a close
\* request.
EndRequested ==
  KeyPressed(Named("Escape")) \/ last.kind = "CloseRequested"

\* An Escape press or a close request calls exit() and leaves the buffer.
EndRequestExits ==
  EndRequested =>
    /\ exiting
    /\ pc = "running"
    /\ editor_content = prev.content
    /\ cursor_position = prev.cursor
    /\ error = prev.error

\* C10, as stated: an Escape press or a close request asks the loop to exit
\* without changing the buffer, and a session whose exit Escape or a close
\* request asked for ends with run returning Ok, exit status 0.
C10_EndRequestExitsZero ==
  /\ EndRequestExits
  /\ (pc = "done" /\ exit_cause \in {"Escape", "CloseRequested"}) =>
       result = "Ok" /\ ExitStatus = 0

\* C10, amended: ... ends with run returning Ok, exit status 0, unless an
\* error was recorded before the loop stopped.
C10_EndRequestExitsZeroUnlessError ==
  /\ EndRequestExits
  /\ (pc = "done" /\ exit_cause \in {"Escape", "CloseRequested"}
        /\ error = None) =>
       result = "Ok" /\ ExitStatus = 0

\* C10, its case: a session with text typed, ended by Escape, is over and
\* run returned Ok.
C10_Witness ==
  /\ pc = "done"
  /\ exit_cause = "Escape"
  /\ editor_content # <<>>
  /\ result = "Ok"


\* The errors of window creation and of Renderer::new.
ConstructionErrors == {"CreateWindow"} \cup RendererNewErrors

\* The errors a render call returns.
RenderErrors == {"CurrentTexture", "Internal"}

\* The last event was a resumed whose window or renderer construction
\* failed, or a redraw whose render call returned an error.
FailedHere ==
  \/ last.kind = "Resumed" /\ last.outcome \in ConstructionErrors
  \/ last.kind = "RedrawRequested" /\ last.outcome \in RenderErrors

\* C11: a failure of window creation, of Renderer::new or of a render call
\* is recorded in App.error and exit() is called by the same handler; no
\* later event clears a recorded error; and a session that ends with an
\* error recorded ends with a non-zero status: run returns Err and main
\* exits 1 (a panic meanwhile exits 101).
C11_ErrorRecordedAndFatal ==
  /\ FailedHere => error = last.outcome /\ exiting /\ exit_cause # None
  /\ prev.error # None => error # None
  /\ (pc = "done" /\ error # None) => result = "Err" /\ ExitStatus = 1
  /\ (pc \in {"done", "panicked"} /\ error # None) => ExitStatus # 0

\* C11, its case: a render call failed, more events were handled, and the
\* session is over with run returning the error.
C11_Witness ==
  /\ pc = "done"
  /\ error = "CurrentTexture"
  /\ exit_cause = "Error"
  /\ editor_content # <<>>
  /\ result = "Err"


\* The dimensions a renderer stores and the configuration of its surface.
Geometry(r) == [size |-> r.size, config |-> r.config, surface |-> r.surface]

\* C12: a resize with a zero width or height leaves the renderer's size,
\* its config and the surface's configuration as they were and does not
\* configure the surface; a resize with both non-zero stores the new size,
\* sets the config's width and height to it and configures the surface
\* with that config, all in the handling of the one event.
C12_Resize ==
  (last.kind = "Resized" /\ renderer # NoRenderer /\ last.before # NoRenderer) =>
    IF last.size.width = 0 \/ last.size.height = 0
    THEN /\ Geometry(renderer[1]) = Geometry(last.before[1])
         /\ ~last.configured
    ELSE /\ renderer[1].size = last.size
         /\ renderer[1].config = [width |-> last.size.width,
                                  height |-> last.size.height]
         /\ renderer[1].surface = renderer[1].config
         /\ last.configured

\* C12, its case: a resize to new non-zero dimensions was followed by one
\* with a zero dimension, which left them in place.
C12_Witness ==
  /\ last.kind = "Resized"
  /\ last.size.width = 0
  /\ renderer # NoRenderer
  /\ renderer[1].size # InitialSize
  /\ renderer[1].surface = [width |-> renderer[1].size.width,
                            height |-> renderer[1].size.height]


\* The number of characters of the content before byte index i, for i on a
\* character boundary.
CharsBefore(text, i) ==
  CHOOSE k \in 0..Len(text) : StrLen(SubSeq(text, 1, k)) = i

\* C13: a render call that draws the caret places it at
\* x_margin + n * char_width, n being the number of characters before the
\* cursor, which is the cursor itself.
C13_CaretAtCharacterCount ==
  (last.kind = "RedrawRequested" /\ last.rendered /\ last.caret
     /\ last.outcome = "Ok") =>
    /\ CharsBefore(editor_content, cursor_position) = cursor_position
    /\ last.cursor_x = XMargin + cursor_position * CharWidth
    /\ last.cursor_x =
         XMargin + CharsBefore(editor_content, cursor_position) * CharWidth


\* The last event was a redraw whose render call flushed the text and then
\* failed to flush the caret glyph.
CaretFlushFailed == last.kind = "RedrawRequested" /\ last.failed = "Cursor"

\* C14 as stated: a render call whose caret flush fails reports the error
\* and still submits the clear and text passes and presents the texture.
C14_CaretFailureKeepsFrame ==
  CaretFlushFailed =>
    /\ last.outcome = "Internal"
    /\ error = "Internal"
    /\ last.submitted
    /\ last.presented

\* C14, amended: a render call whose caret flush fails reports the error
\* and returns at once: nothing is submitted to the queue and the texture
\* is not presented.
C14_CaretFailureAbortsFrame ==
  CaretFlushFailed =>
    /\ last.outcome = "Internal"
    /\ error = "Internal"
    /\ exiting
    /\ ~last.submitted
    /\ ~last.presented

\* C14, its case: the caret flush failed in a frame drawing a non-empty
\* text.
C14_Witness ==
  /\ CaretFlushFailed
  /\ last.caret
  /\ editor_content # <<>>


\* A render call ran in the last event.
Rendered == last.kind = "RedrawRequested" /\ last.rendered

\* C15: a render call flips cursor_visible and resets the blink timer
\* exactly when more than 500 ms have elapsed on the timer, and otherwise
\* leaves both as they were; a fresh renderer has cursor_visible true and
\* its timer at zero, so two toggles are always more than 500 ms apart.
C15_Blink ==
  /\ Rendered =>
        LET b == last.before[1]
            a == last.after[1]
        IN  IF b.cursor_blink_timer > BlinkMs
            THEN /\ a.cursor_visible = ~b.cursor_visible
                 /\ a.cursor_blink_timer = 0
            ELSE /\ a.cursor_visible = b.cursor_visible
                 /\ a.cursor_blink_timer = b.cursor_blink_timer
  /\ (last.kind = "Resumed" /\ last.outcome = "Ok") =>
        /\ renderer[1].cursor_visible
        /\ renderer[1].cursor_blink_timer \in {k * TickMs : k \in 0..MaxTicks}
  /\ RendererNew(InitialSize).cursor_visible
  /\ RendererNew(InitialSize).cursor_blink_timer = 0

\* C15, its case: a render call toggled the caret back to visible, more
\* than 500 ms after the toggle that hid it.
C15_Witness ==
  /\ Rendered
  /\ ~last.before[1].cursor_visible
  /\ last.before[1].cursor_blink_timer > BlinkMs
  /\ last.after[1].cursor_visible


\* C16: the render call serving a redraw reads the content and the cursor
\* as the events handled before it left them, so a key press that requested
\* the redraw has its mutation included; a key press other than Escape
\* leaves a redraw requested; and a RedrawRequested event makes exactly one
\* render call when a renderer exists (none otherwise).
C16_RedrawAfterMutation ==
  /\ Rendered =>
        /\ last.text = editor_content
        /\ last.cursor = cursor_position
        /\ last.text = prev.content
        /\ last.cursor = prev.cursor
  /\ last.kind = "RedrawRequested" =>
        last.calls = IF last.before # NoRenderer THEN 1 ELSE 0
  /\ (last.kind = "KeyboardInput" /\ last.state = Pressed
        /\ last.key # Named("Escape") /\ pc = "running") => redraw_requested

\* C16, its case: a redraw rendered a text that a key press had typed,
\* with the cursor that later key presses had moved back to its start.
C16_Witness ==
  /\ Rendered
  /\ last.calls = 1
  /\ last.text = <<233>>
  /\ last.cursor = 0
  /\ last.outcome = "Ok"


\* C17: once window creation or Renderer::new has failed in resumed, no
\* later event attempts the construction again: a further resumed skips it.
C17_ConstructionNotRetried ==
  (last.kind = "Resumed" /\ prev.error \in ConstructionErrors) =>
    last.outcome = "Skipped"


\* C18: a render call, whether it succeeds or fails, changes nothing of the
\* renderer but cursor_visible and the blink timer: the stored size, the
\* config and the surface's configuration stay; and it changes neither the
\* content nor the cursor.
C18_RenderChangesOnlyBlink ==
  Rendered =>
    LET b == last.before[1]
        a == last.after[1]
    IN  /\ Geometry(a) = Geometry(b)
        /\ [a EXCEPT !.cursor_visible = b.cursor_visible,
                     !.cursor_blink_timer = b.cursor_blink_timer] = b
        /\ editor_content = prev.content
        /\ cursor_position = prev.cursor

\* C18, its case: a failing render call on a resized renderer toggled the
\* caret.
C18_Witness ==
  /\ Rendered
  /\ last.outcome = "CurrentTexture"
  /\ last.before[1].size # InitialSize
  /\ last.after[1].cursor_visible # last.before[1].cursor_visible
  /\ editor_content # <<>>


\* C20: in every state key events reach, the slice
\* &text_content[0..cursor_position] of a render call is well defined: the
\* cursor is within the text's bytes and on a character boundary, so no
\* render call panics.
C20_RenderSliceDefined ==
  /\ window # None =>
        /\ cursor_position <= StrLen(editor_content)
        /\ IsCharBoundary(editor_content, cursor_position)
  /\ Rendered => last.outcome # "panic"


\* A RedrawRequested event is handled.
Redraw == \E fail \in RenderFailures : RedrawRequested(fail)

\* C19: with a window and a renderer, the handling of every RedrawRequested
\* leaves a redraw requested, so that, requested redraws being delivered,
\* RedrawRequested events are handled (each rendering) again and again
\* without any key event, until exit() is called.
C19_RedrawCadence ==
  /\ []((last.kind = "RedrawRequested" /\ window # None /\ renderer # NoRenderer)
          => (redraw_requested /\ last.rendered))
  /\ ([]<><<Redraw>>_vars \/ <>exiting \/ [](window = None))

\* C19, its case: redraws followed each other on an idle window, none of
\* them asked to exit.
C19_Witness ==
  /\ Rendered
  /\ last.frame = 1
  /\ last.outcome = "Ok"
  /\ redraw_requested
  /\ ~exiting
  /\ editor_content = <<>>


\* C21: the app has a renderer exactly when it has a window: a successful
\* resumed sets both and a failed one sets neither; so a redraw is requested
\* only with a renderer, every RedrawRequested handled renders, and every
\* Resized handled reaches the renderer.
C21_RendererIffWindow ==
  /\ (renderer # NoRenderer) <=> (window # None)
  /\ (last.kind = "Resumed" /\ last.outcome = "Ok") =>
        (renderer # NoRenderer /\ window # None)
  /\ (last.kind = "Resumed" /\ last.outcome \in ConstructionErrors) =>
        (renderer = NoRenderer /\ window = None)
  /\ redraw_requested => renderer # NoRenderer
  /\ last.kind = "RedrawRequested" => last.rendered
  /\ last.kind = "Resized" => last.before # NoRenderer

\* C21, its case: resumed failed, leaving neither, and a further resumed
\* succeeded, setting both.
C21_Witness ==
  /\ last.kind = "Resumed"
  /\ last.outcome = "Ok"
  /\ prev.error \in ConstructionErrors
  /\ window # None
  /\ renderer # NoRenderer

====
